---- MODULE Spec2Model ----
(***************************************************************************)
(* Model of lipi-swap (src/coding_sample/lipi-swap-refactored.py, and the  *)
(* line-for-line equivalent lipi-swap.py): a sequential crawler            *)
(*     state page -> district pages -> block pages -> panchayat rows.      *)
(*                                                                         *)
(* Modelling conventions                                                   *)
(*  - A text is a sequence of characters.  A character is a one-character  *)
(*    string for ASCII and the name "U+XXXX" for a Devanagari code point.  *)
(*  - A parsed document is the sequence of its top-level tables; a table   *)
(*    is the sequence of its <tr> rows in document order; a row is the     *)
(*    sequence of its <td>/<th> cells; a cell is the sequence of its       *)
(*    children (text nodes and <a> elements).                              *)
(*  - A URL is modelled in parsed form: scheme, netloc, path segments and  *)
(*    the query as a sequence of <<key, value>> pairs.                     *)
(*  - Python's None is the record NoneValue; an uncaught exception of an   *)
(*    extractor is the result [raised |-> "KeyError", ...].                *)
(***************************************************************************)
EXTENDS Integers, Sequences, FiniteSets, TLC

(***************************************************************************)
(* Bounds of the model.                                                    *)
(***************************************************************************)
\* longest state_url_list explored
MaxStateUrls == 2
\* most <tr> rows of a table handed directly to an extractor
MaxRows == 5

(***************************************************************************)
(* Program constants.                                                      *)
(***************************************************************************)
\* rows = table.find_all('tr')[4:]
HEADER_ROWS == 4
\* if len(cells) >= 2
MIN_LINK_CELLS == 2
\* if len(cells) >= 14
MIN_DATA_CELLS == 14
\* time.sleep(1)
SLEEP_SECONDS == 1

NoneValue == [kind |-> "None"]

(***************************************************************************)
(* Text: str.strip() and unidecode().                                      *)
(***************************************************************************)
Whitespace == {" ", "\t", "\n"}

RECURSIVE LStrip(_)
LStrip(t) ==
    IF t /= <<>> /\ Head(t) \in Whitespace THEN LStrip(Tail(t)) ELSE t

RECURSIVE RStrip(_)
RStrip(t) ==
    IF t /= <<>> /\ t[Len(t)] \in Whitespace
    THEN RStrip(SubSeq(t, 1, Len(t) - 1))
    ELSE t

\* str.strip(): leading and trailing whitespace removed
Strip(t) == RStrip(LStrip(t))

\* unidecode's table for the code points used here (x009 block); every
\* ASCII character is returned unchanged
UnidecodeChar(c) ==
    CASE c = "U+092A" -> <<"p">>
      [] c = "U+0902" -> <<"N">>
      [] c = "U+091A" -> <<"c">>
      [] c = "U+093E" -> <<"a", "a">>
      [] c = "U+092F" -> <<"y">>
      [] c = "U+0924" -> <<"t">>
      [] OTHER -> <<c>>

RECURSIVE unidecode(_)
unidecode(t) ==
    IF t = <<>> THEN <<>> ELSE UnidecodeChar(Head(t)) \o unidecode(Tail(t))

(***************************************************************************)
(* The parsed document tree and the BeautifulSoup queries used.            *)
(***************************************************************************)
TextNode(t) == [tag |-> "#text", text |-> t]
Anchor(attrs, t) == [tag |-> "a", text |-> t, attrs |-> attrs]
Td(children) == [tag |-> "td", children |-> children]
Th(children) == [tag |-> "th", children |-> children]
Tr(cells) == [tag |-> "tr", cells |-> cells]
Table(id, rows) == [tag |-> "table", id |-> id, rows |-> rows]
Soup(tables) == [kind |-> "soup", tables |-> tables]

\* Tag.text: the concatenation of all strings below the tag
RECURSIVE NodesText(_)
NodesText(children) ==
    IF children = <<>> THEN <<>>
    ELSE Head(children).text \o NodesText(Tail(children))

CellText(cell) == NodesText(cell.children)

IsTd(c) == c.tag = "td"
IsAnchor(n) == n.tag = "a"
IsT1(tb) == tb.id = "t1"

\* a find that ignores the id: the first table of the document
FindTable_anyid(soup) ==
    IF soup.tables = <<>> THEN NoneValue
    ELSE [kind |-> "tag", node |-> Head(soup.tables)]

\* soup.find('table', id='t1'): the first such table, or None
FindTable(soup) ==
    LET hits == SelectSeq(soup.tables, IsT1)
    IN  IF hits = <<>> THEN NoneValue ELSE [kind |-> "tag", node |-> Head(hits)]

\* row.find_all('td')
FindAllTd(row) == SelectSeq(row.cells, IsTd)

\* cell.find('a'): the first <a> below the cell, or None
FindAnchor(cell) ==
    LET hits == SelectSeq(cell.children, IsAnchor)
    IN  IF hits = <<>> THEN NoneValue ELSE [kind |-> "tag", node |-> Head(hits)]

\* a slice that keeps the fourth row: table.find_all('tr')[3:]
DataRows_off_by_one(table) ==
    IF Len(table.rows) <= HEADER_ROWS - 1 THEN <<>>
    ELSE SubSeq(table.rows, HEADER_ROWS, Len(table.rows))

\* table.find_all('tr')[4:]
DataRows(table) ==
    IF Len(table.rows) <= HEADER_ROWS THEN <<>>
    ELSE SubSeq(table.rows, HEADER_ROWS + 1, Len(table.rows))

(***************************************************************************)
(* URLs: urllib.parse.urljoin and parse_qs.                                *)
(***************************************************************************)
Url(scheme, netloc, rooted, path, query) ==
    [scheme |-> scheme, netloc |-> netloc, rooted |-> rooted,
     path |-> path, query |-> query]

\* the empty reference, href=""
EmptyRef == Url("", "", FALSE, <<>>, <<>>)

IsAbsolute(u) == u.scheme /= ""

\* base_parts: the base path without its last segment
BaseDir(path) == IF path = <<>> THEN <<>> ELSE SubSeq(path, 1, Len(path) - 1)

\* urljoin(base, url), for references without "." and ".." segments
urljoin(base, url) ==
    IF url = EmptyRef THEN base
    ELSE IF url.scheme /= "" /\ url.scheme /= base.scheme THEN url
    ELSE IF url.netloc /= "" THEN [url EXCEPT !.scheme = base.scheme]
    ELSE IF url.path = <<>> /\ ~url.rooted
         THEN [base EXCEPT !.query = IF url.query = <<>> THEN base.query
                                     ELSE url.query]
    ELSE IF url.rooted
         THEN Url(base.scheme, base.netloc, TRUE, url.path, url.query)
    ELSE Url(base.scheme, base.netloc, base.rooted,
             BaseDir(base.path) \o url.path, url.query)

\* parse_qs(query).get(key, ['Unknown'])[0]: parse_qs drops the pairs whose
\* value is blank and lists a key's values in order of appearance
QueryGet(query, key) ==
    LET Keeps(kv) == kv[1] = key /\ kv[2] /= ""
        values == SelectSeq(query, Keeps)
    IN  IF values = <<>> THEN "Unknown" ELSE Head(values)[2]

\* BASE_URL_PATH: the configured base, here http://nrega.example/app/index
BASE_URL_PATH == Url("http", "nrega.example", TRUE, <<"app", "index">>, <<>>)

(***************************************************************************)
(* extract_links(soup)                                                     *)
(***************************************************************************)
Returned(v) == [raised |-> "none", value |-> v]
Raised(e) == [raised |-> e, value |-> <<>>]

\* the body of "for row in rows": what one row does to link_list
LinkRowStep(row, link_list) ==
    LET cells == FindAllTd(row)
    IN  IF Len(cells) >= MIN_LINK_CELLS
        THEN LET link_tag == FindAnchor(cells[2])
             IN  IF link_tag /= NoneValue
                 THEN IF "href" \in DOMAIN link_tag.node.attrs
                      THEN Returned(Append(link_list,
                               <<unidecode(Strip(link_tag.node.text)),
                                 urljoin(BASE_URL_PATH,
                                         link_tag.node.attrs.href)>>))
                      ELSE Raised("KeyError")
                 ELSE Returned(link_list)
        ELSE Returned(link_list)

RECURSIVE LinkLoop(_, _)
LinkLoop(rows, link_list) ==
    IF rows = <<>> THEN Returned(link_list)
    ELSE LET r == LinkRowStep(Head(rows), link_list)
         IN  IF r.raised /= "none" THEN r ELSE LinkLoop(Tail(rows), r.value)

extract_links(soup) ==
    IF soup = NoneValue THEN Returned(<<>>)
    ELSE LET table == FindTable(soup)
         IN  IF table = NoneValue THEN Returned(<<>>)
             ELSE LinkLoop(DataRows(table.node), <<>>)

(***************************************************************************)
(* scrape_table_data(soup, state, state_id, fy, district, block)           *)
(***************************************************************************)
\* the keys of the record, in the order the dictionary literal gives them
MONTHS == <<"April", "May", "June", "July", "August", "September", "October",
            "November", "December", "January", "February", "March">>

\* a slice that starts one cell early: cells[1:13]
MonthlyData_shifted(cells) ==
    [i \in 1..(MIN_DATA_CELLS - 2) |-> Strip(CellText(cells[i + 1]))]

\* monthly_data_list = [cell.text.strip() for cell in cells[2:14]]
MonthlyData(cells) ==
    [i \in 1..(MIN_DATA_CELLS - 2) |-> Strip(CellText(cells[i + 2]))]

\* a dictionary with the district and block arguments exchanged
MakeRecord_swapped(state, state_id, fy, district, block, panchayat, m) ==
    [State |-> state, StateID |-> state_id, FY |-> fy,
     District |-> block, Block |-> district, Panchayat |-> panchayat,
     April |-> m[1], May |-> m[2], June |-> m[3], July |-> m[4],
     August |-> m[5], September |-> m[6], October |-> m[7],
     November |-> m[8], December |-> m[9], January |-> m[10],
     February |-> m[11], March |-> m[12]]

\* the dictionary appended for one row
MakeRecord(state, state_id, fy, district, block, panchayat, m) ==
    [State |-> state, StateID |-> state_id, FY |-> fy,
     District |-> district, Block |-> block, Panchayat |-> panchayat,
     April |-> m[1], May |-> m[2], June |-> m[3], July |-> m[4],
     August |-> m[5], September |-> m[6], October |-> m[7],
     November |-> m[8], December |-> m[9], January |-> m[10],
     February |-> m[11], March |-> m[12]]

DataRowStep(row, data_list, state, state_id, fy, district, block) ==
    LET cells == FindAllTd(row)
    IN  IF Len(cells) >= MIN_DATA_CELLS
        THEN Append(data_list,
                    MakeRecord(state, state_id, fy, district, block,
                               unidecode(Strip(CellText(cells[2]))),
                               MonthlyData(cells)))
        ELSE data_list

RECURSIVE DataLoop(_, _, _, _, _, _, _)
DataLoop(rows, data_list, state, state_id, fy, district, block) ==
    IF rows = <<>> THEN data_list
    ELSE DataLoop(Tail(rows),
                  DataRowStep(Head(rows), data_list,
                              state, state_id, fy, district, block),
                  state, state_id, fy, district, block)

scrape_table_data(soup, state, state_id, fy, district, block) ==
    IF soup = NoneValue THEN Returned(<<>>)
    ELSE LET table == FindTable(soup)
         IN  IF table = NoneValue THEN Returned(<<>>)
             ELSE Returned(DataLoop(DataRows(table.node), <<>>,
                                    state, state_id, fy, district, block))

(***************************************************************************)
(* get_soup(url), given what the network answers                           *)
(***************************************************************************)
HttpResponse(status, body) ==
    [kind |-> "response", status |-> status, body |-> body]
TransportError == [kind |-> "exception", status |-> 0, body |-> NoneValue]

\* response.raise_for_status() raises HTTPError
RaisesForStatus(response) == response.status >= 400 /\ response.status < 600

\* the value returned and the seconds slept before returning
get_soup(response) ==
    IF response.kind = "exception" \/ RaisesForStatus(response)
    THEN [soup |-> NoneValue, slept |-> 0]
    ELSE [soup |-> response.body, slept |-> SLEEP_SECONDS]

(***************************************************************************)
(* The web the crawler runs against: texts, rows, pages and URLs.          *)
(***************************************************************************)
\* " पंचायत " : a Devanagari label with surrounding whitespace
T_DEVA == <<" ", "U+092A", "U+0902", "U+091A", "U+093E", "U+092F", "U+0924", "\n">>
T_GAYA == <<"G", "a", "y", "a">>
T_PATNA == <<" ", "U+092A", "U+0924">>
T_B1 == <<"U+091A", "U+093E", " ">>
T_B2 == <<"B", "2">>
T_SERIAL == <<"1">>
T_TOTAL == <<"T", "o", "t", "a", "l">>

\* the cell texts " 100 ", "110", ..., "210" of twelve month columns
MonthText(i) ==
    <<" ", IF i <= 10 THEN "1" ELSE "2",
      <<"0", "1", "2", "3", "4", "5", "6", "7", "8", "9">>[((i - 1) % 10) + 1],
      "0", " ">>
\* month columns as rendered for a row without figures: "", "-", "NA"
BlankText(i) == IF i % 3 = 0 THEN <<>> ELSE IF i % 3 = 1 THEN <<"-">> ELSE <<" ", "N", "A">>

PlainTd(t) == Td(<<TextNode(t)>>)
LinkTd(t, href) == Td(<<TextNode(<<" ">>), Anchor([href |-> href], t)>>)
\* <td><a name="top">text</a></td>: an anchor without href
NamedAnchorTd(t) == Td(<<Anchor([name |-> "top"], t)>>)

Rel(path, query) == Url("", "", FALSE, path, query)
Rooted(path) == Url("", "", TRUE, path, <<>>)
Page(path, query) == Url("http", "nrega.example", TRUE, path, query)

\* the kinds of table row
ROW_HEADER == Tr(<<Th(<<TextNode(T_SERIAL)>>), PlainTd(T_TOTAL)>>)
ROW_SHORT == Tr(<<PlainTd(T_SERIAL)>>)
ROW_NOLINK == Tr(<<PlainTd(T_SERIAL), PlainTd(T_GAYA)>>)
ROW_NOHREF == Tr(<<PlainTd(T_SERIAL), NamedAnchorTd(T_GAYA)>>)
LinkRow(t, href) == Tr(<<PlainTd(T_SERIAL), LinkTd(t, href), PlainTd(T_TOTAL)>>)
\* n cells: serial, name, then n - 2 value cells
DataRow(nameTd, n) ==
    Tr(<<PlainTd(T_SERIAL), nameTd>> \o [i \in 1..(n - 2) |-> PlainTd(MonthText(i))])
BlankRow(nameTd, n) ==
    Tr(<<PlainTd(T_SERIAL), nameTd>> \o [i \in 1..(n - 2) |-> PlainTd(BlankText(i))])

URL_D1 == Page(<<"app", "d1">>, <<>>)
URL_D2 == Page(<<"app", "d2">>, <<>>)
URL_B1 == Page(<<"app", "b1">>, <<>>)
URL_B2 == Page(<<"app", "block">>, << <<"b", "2">> >>)

\* the state URLs a run may be configured with
URL_SA == Page(<<"app", "state">>,
               << <<"state_name", "Bihar">>, <<"state_code", "05">>,
                  <<"fin_year", "2023-24">> >>)
URL_SB == Page(<<"app", "state">>,
               << <<"state_name", "">>, <<"state_name", "Goa">>,
                  <<"state_code", "">>, <<"state_name", "Assam">> >>)
URL_SC == Page(<<"app", "plain">>, <<>>)
URL_SD == Page(<<"app", "state">>, << <<"state_name", "Kerala">> >>)
StateUrlPool == {URL_SA, URL_SB, URL_SC, URL_SD}

HEADERS == <<ROW_HEADER, LinkRow(T_TOTAL, Rel(<<"hdr">>, <<>>)),
             DataRow(PlainTd(T_TOTAL), 14), ROW_HEADER>>

PAGE_SA == Soup(<<Table("t0", <<LinkRow(T_GAYA, Rel(<<"x">>, <<>>))>>),
                  Table("t1", HEADERS \o
                        <<LinkRow(T_PATNA, Rel(<<"d1">>, <<>>)),
                          ROW_SHORT, ROW_NOLINK,
                          LinkRow(T_GAYA, Rooted(<<"app", "d2">>))>>)>>)
PAGE_SB == Soup(<<Table("t1", HEADERS \o
                        <<LinkRow(T_DEVA, URL_D1), ROW_HEADER,
                          LinkRow(T_GAYA, URL_SD)>>),
                  Table("t1", <<>>)>>)
PAGE_SC == Soup(<<Table("t0", HEADERS \o
                        <<LinkRow(T_GAYA, Rel(<<"d1">>, <<>>))>>)>>)
PAGE_SD == Soup(<<Table("t1", HEADERS \o
                        <<LinkRow(T_PATNA, Rel(<<"d1">>, <<>>)), ROW_NOHREF,
                          LinkRow(T_GAYA, Rel(<<"d2">>, <<>>))>>)>>)
PAGE_D1 == Soup(<<Table("t1", HEADERS \o
                        <<LinkRow(T_B1, Rel(<<"b1">>, <<>>)),
                          LinkRow(T_B2, Rel(<<"block">>, << <<"b", "2">> >>))>>)>>)
\* links to b1, to itself and, by href="", to the base URL
PAGE_D2 == Soup(<<Table("t1", HEADERS \o
                        <<LinkRow(T_B1, URL_B1),
                          LinkRow(T_GAYA, Rooted(<<"app", "d2">>)),
                          LinkRow(T_TOTAL, EmptyRef)>>)>>)
PAGE_B1 == Soup(<<Table("t1", HEADERS \o
                        <<DataRow(LinkTd(T_DEVA, Rel(<<"p1">>, <<>>)), 14),
                          DataRow(PlainTd(T_GAYA), 13),
                          BlankRow(PlainTd(T_PATNA), 15)>>)>>)
PAGE_B2 == Soup(<<Table("t1", HEADERS \o
                        <<ROW_SHORT, BlankRow(PlainTd(T_B2), 14)>>)>>)
PAGE_ERROR == Soup(<<>>)

\* the pages the server holds, by URL
Known(url) == url \in {URL_SA, URL_SB, URL_SC, URL_SD, URL_D1, URL_D2, URL_B1, URL_B2}
PageAt(url) ==
    CASE url = URL_SA -> PAGE_SA
      [] url = URL_SB -> PAGE_SB
      [] url = URL_SC -> PAGE_SC
      [] url = URL_SD -> PAGE_SD
      [] url = URL_D1 -> PAGE_D1
      [] url = URL_D2 -> PAGE_D2
      [] url = URL_B1 -> PAGE_B1
      [] url = URL_B2 -> PAGE_B2
      [] OTHER -> PAGE_ERROR

\* what requests.get(url) may produce
Responses(url) ==
    {TransportError, HttpResponse(404, PAGE_ERROR), HttpResponse(500, PAGE_ERROR)}
    \cup (IF Known(url) THEN {HttpResponse(200, PageAt(url))} ELSE {})

\* the documents handed to an extractor called directly
RowKinds == {ROW_HEADER, ROW_NOHREF,
             DataRow(LinkTd(T_DEVA, Rel(<<"p1">>, <<>>)), 14),
             DataRow(LinkTd(T_GAYA, URL_B1), 13),
             BlankRow(PlainTd(T_PATNA), 15)}
RowSeqs == UNION {[1..n -> RowKinds] : n \in 0..MaxRows}
DirectSoups ==
    {NoneValue, Soup(<<>>), PAGE_SC}
    \cup {Soup(<<Table("t1", rows)>>) : rows \in RowSeqs}
    \cup {Soup(<<Table("t0", HEADERS \o <<row>>), Table("t1", HEADERS \o <<row>>)>>) :
              row \in RowKinds}

(***************************************************************************)
(* The program state.                                                      *)
(***************************************************************************)
VARIABLES
    pc,                  \* where control is: "states", "districts", "blocks"
                         \* (at the head of that for loop), "write", "done",
                         \* "aborted" (uncaught exception), "direct" /
                         \* "returned" (an extractor called on its own)
    state_url_list,      \* the configured list of state URLs
    si, di, bi,          \* elements consumed by the three for loops
    state, state_id, fy, \* main's locals of the same names
    district_link_list, district_name, block_link_list,
    all_data_list,
    output,              \* the CSV file: NoneValue until written
    writes,              \* number of to_csv calls so far
    log,                 \* history: the get_soup calls made, in order
    origin,              \* history: for each element of all_data_list, the
                         \* <<state, district, block, table row>> it came from
    doc,                 \* the document of a direct extractor call
    call                 \* the last extractor call: function, arguments, result

vars == <<pc, state_url_list, si, di, bi, state, state_id, fy,
          district_link_list, district_name, block_link_list, all_data_list,
          output, writes, log, origin, doc, call>>

NoCall == [fn |-> "none", soup |-> NoneValue, ctx |-> <<>>, result |-> Returned(<<>>)]
Call(fn, soup, ctx, result) == [fn |-> fn, soup |-> soup, ctx |-> ctx, result |-> result]

\* the context of the doctest of scrape_table_data
DOCTEST_CTX == <<"State", "01", "2023", <<"D">>, <<"B">>>>

StateUrlLists == UNION {[1..n -> StateUrlPool] : n \in 0..MaxStateUrls}

\* new items put in front of the list instead of behind it
Extend_prepend(list, items) == items \o list

\* list.extend
Extend(list, items) == list \o items

\* the columns of the data frame: the keys of the first dictionary, in order
COLUMNS == <<"State", "State ID", "FY", "District", "Block", "Panchayat">> \o MONTHS

Field(rec, column) ==
    CASE column = "State" -> rec.State
      [] column = "State ID" -> rec.StateID
      [] column = "FY" -> rec.FY
      [] column = "District" -> rec.District
      [] column = "Block" -> rec.Block
      [] column = "Panchayat" -> rec.Panchayat
      [] column = "April" -> rec.April
      [] column = "May" -> rec.May
      [] column = "June" -> rec.June
      [] column = "July" -> rec.July
      [] column = "August" -> rec.August
      [] column = "September" -> rec.September
      [] column = "October" -> rec.October
      [] column = "November" -> rec.November
      [] column = "December" -> rec.December
      [] column = "January" -> rec.January
      [] column = "February" -> rec.February
      [] column = "March" -> rec.March

\* pd.DataFrame(all_data_list).to_csv(output_path, index=False)
to_csv(data) ==
    [kind |-> "csv", header |-> COLUMNS,
     rows |-> [r \in 1..Len(data) |->
                   [c \in 1..Len(COLUMNS) |-> Field(data[r], COLUMNS[c])]]]

\* the table rows scrape_table_data turns into records, by index in the table
RECURSIVE RecordRows(_, _)
RecordRows(rows, i) ==
    IF i > Len(rows) THEN <<>>
    ELSE (IF i > HEADER_ROWS /\ Len(FindAllTd(rows[i])) >= MIN_DATA_CELLS
          THEN <<i>> ELSE <<>>) \o RecordRows(rows, i + 1)

Fetched(url, path, r) ==
    [url |-> url, path |-> path, ok |-> r.soup /= NoneValue, slept |-> r.slept]

\* where control goes when a loop body ends
AfterState(s) == IF s < Len(state_url_list) THEN "states" ELSE "write"
AfterDistrict(d, links, s) == IF d < Len(links) THEN "districts" ELSE AfterState(s)
AfterBlock(b, blinks, d, links, s) ==
    IF b < Len(blinks) THEN "blocks" ELSE AfterDistrict(d, links, s)

\* "continue" after a failed fetch of a state, district or block page
SkipState(s) == AfterState(s)
\* a "break" in place of the "continue": the remaining districts are dropped
SkipDistrict_break(d, links, s) == AfterState(s)
SkipDistrict(d, links, s) == AfterDistrict(d, links, s)
SkipBlock(b, blinks, d, links, s) == AfterBlock(b, blinks, d, links, s)

\* a test that lets an empty list through
ShouldWrite_always(data) == TRUE
\* "if all_data_list:"
ShouldWrite(data) == data /= <<>>

Init ==
    /\ \/ /\ state_url_list \in StateUrlLists
          /\ pc = AfterState(0)
          /\ doc = NoneValue
       \/ /\ state_url_list = <<>>
          /\ pc = "direct"
          /\ doc \in DirectSoups
    /\ si = 0 /\ di = 0 /\ bi = 0
    /\ state = "" /\ state_id = "" /\ fy = ""
    /\ district_link_list = <<>> /\ district_name = <<>>
    /\ block_link_list = <<>>
    /\ all_data_list = <<>>
    /\ output = NoneValue
    /\ writes = 0
    /\ log = <<>>
    /\ origin = <<>>
    /\ call = NoCall

(***************************************************************************)
(* main(): one iteration of the loop over state_url_list.                  *)
(***************************************************************************)
StateStep ==
    /\ pc = "states"
    /\ LET url == state_url_list[si + 1] IN
       \E response \in Responses(url) :
         LET r == get_soup(response)
             links == extract_links(r.soup)
         IN  /\ si' = si + 1
             /\ state' = QueryGet(url.query, "state_name")
             /\ state_id' = QueryGet(url.query, "state_code")
             /\ fy' = QueryGet(url.query, "fin_year")
             /\ log' = Append(log, Fetched(url, <<si + 1>>, r))
             /\ IF r.soup = NoneValue
                THEN /\ pc' = SkipState(si + 1)
                     /\ UNCHANGED <<district_link_list, di, call>>
                ELSE /\ call' = Call("extract_links", r.soup, <<>>, links)
                     /\ IF links.raised /= "none"
                        THEN /\ pc' = "aborted"
                             /\ UNCHANGED <<district_link_list, di>>
                        ELSE /\ district_link_list' = links.value
                             /\ di' = 0
                             /\ pc' = AfterDistrict(0, links.value, si + 1)
    /\ UNCHANGED <<state_url_list, bi, district_name, block_link_list,
                   all_data_list, output, writes, origin, doc>>

(***************************************************************************)
(* main(): one iteration of the loop over district_link_list.              *)
(***************************************************************************)
DistrictStep ==
    /\ pc = "districts"
    /\ LET url == district_link_list[di + 1][2] IN
       \E response \in Responses(url) :
         LET r == get_soup(response)
             links == extract_links(r.soup)
         IN  /\ di' = di + 1
             /\ district_name' = district_link_list[di + 1][1]
             /\ log' = Append(log, Fetched(url, <<si, di + 1>>, r))
             /\ IF r.soup = NoneValue
                THEN /\ pc' = SkipDistrict(di + 1, district_link_list, si)
                     /\ UNCHANGED <<block_link_list, bi, call>>
                ELSE /\ call' = Call("extract_links", r.soup, <<>>, links)
                     /\ IF links.raised /= "none"
                        THEN /\ pc' = "aborted"
                             /\ UNCHANGED <<block_link_list, bi>>
                        ELSE /\ block_link_list' = links.value
                             /\ bi' = 0
                             /\ pc' = AfterBlock(0, links.value, di + 1,
                                                 district_link_list, si)
    /\ UNCHANGED <<state_url_list, si, state, state_id, fy, district_link_list,
                   all_data_list, output, writes, origin, doc>>

(***************************************************************************)
(* main(): one iteration of the loop over block_link_list.                 *)
(***************************************************************************)
BlockStep ==
    /\ pc = "blocks"
    /\ LET block_name == block_link_list[bi + 1][1]
           url == block_link_list[bi + 1][2]
       IN
       \E response \in Responses(url) :
         LET r == get_soup(response)
             ctx == <<state, state_id, fy, district_name, block_name>>
             data == scrape_table_data(r.soup, state, state_id, fy,
                                       district_name, block_name)
             table == FindTable(r.soup)
             from == IF table = NoneValue THEN <<>>
                     ELSE RecordRows(table.node.rows, 1)
         IN  /\ bi' = bi + 1
             /\ log' = Append(log, Fetched(url, <<si, di, bi + 1>>, r))
             /\ IF r.soup = NoneValue
                THEN /\ pc' = SkipBlock(bi + 1, block_link_list, di,
                                        district_link_list, si)
                     /\ UNCHANGED <<all_data_list, origin, call>>
                ELSE /\ pc' = AfterBlock(bi + 1, block_link_list, di,
                                         district_link_list, si)
                     /\ call' = Call("scrape_table_data", r.soup, ctx, data)
                     /\ all_data_list' = Extend(all_data_list, data.value)
                     /\ origin' = Extend(origin,
                            [k \in 1..Len(from) |-> <<si, di, bi + 1, from[k]>>])
    /\ UNCHANGED <<state_url_list, si, di, state, state_id, fy,
                   district_link_list, district_name, block_link_list,
                   output, writes, doc>>

(***************************************************************************)
(* main(): after the loops, "if all_data_list: ... to_csv ... else ...".   *)
(***************************************************************************)
WriteStep ==
    /\ pc = "write"
    /\ pc' = "done"
    /\ IF ShouldWrite(all_data_list)
       THEN /\ output' = to_csv(all_data_list)
            /\ writes' = writes + 1
       ELSE UNCHANGED <<output, writes>>
    /\ UNCHANGED <<state_url_list, si, di, bi, state, state_id, fy,
                   district_link_list, district_name, block_link_list,
                   all_data_list, log, origin, doc, call>>

(***************************************************************************)
(* An extractor called on its own, as the doctests do.                     *)
(***************************************************************************)
DirectExtractLinks ==
    /\ pc = "direct"
    /\ pc' = "returned"
    /\ call' = Call("extract_links", doc, <<>>, extract_links(doc))
    /\ UNCHANGED <<state_url_list, si, di, bi, state, state_id, fy,
                   district_link_list, district_name, block_link_list,
                   all_data_list, output, writes, log, origin, doc>>

DirectScrapeTableData ==
    /\ pc = "direct"
    /\ pc' = "returned"
    /\ call' = Call("scrape_table_data", doc, DOCTEST_CTX,
                    scrape_table_data(doc, DOCTEST_CTX[1], DOCTEST_CTX[2],
                                      DOCTEST_CTX[3], DOCTEST_CTX[4],
                                      DOCTEST_CTX[5]))
    /\ UNCHANGED <<state_url_list, si, di, bi, state, state_id, fy,
                   district_link_list, district_name, block_link_list,
                   all_data_list, output, writes, log, origin, doc>>

Next ==
    \/ StateStep
    \/ DistrictStep
    \/ BlockStep
    \/ WriteStep
    \/ DirectExtractLinks
    \/ DirectScrapeTableData

Spec == Init /\ [][Next]_vars

(***************************************************************************)
(* Vocabulary of the properties.                                           *)
(***************************************************************************)
IsPrefix(a, b) == Len(a) <= Len(b) /\ SubSeq(b, 1, Len(a)) = a
ProperPrefix(a, b) == Len(a) < Len(b) /\ IsPrefix(a, b)

\* a comes before b, position by position
LexLess(a, b) ==
    \E k \in 1..Len(a) :
        /\ k <= Len(b)
        /\ a[k] < b[k]
        /\ \A j \in 1..(k - 1) : a[j] = b[j]

\* the k-th smallest element of a set of numbers
Nth(S, k) == CHOOSE i \in S : Cardinality({j \in S : j < i}) = k - 1

HasT1(soup) ==
    /\ soup /= NoneValue
    /\ \E i \in DOMAIN soup.tables : soup.tables[i].id = "t1"

FirstT1(soup) ==
    CHOOSE i \in DOMAIN soup.tables :
        /\ soup.tables[i].id = "t1"
        /\ \A j \in 1..(i - 1) : soup.tables[j].id /= "t1"

T1Rows(soup) == soup.tables[FirstT1(soup)].rows

TdCount(row) == Cardinality({i \in DOMAIN row.cells : row.cells[i].tag = "td"})

\* the rows after the header rows with at least n <td> cells
BodyRows(soup, n) ==
    {i \in (HEADER_ROWS + 1)..Len(T1Rows(soup)) : TdCount(T1Rows(soup)[i]) >= n}

HasAnchor(cell) == \E i \in DOMAIN cell.children : cell.children[i].tag = "a"

\* the rows after the header rows with a hyperlink in the second cell
LinkRows(soup) ==
    {i \in BodyRows(soup, 2) : HasAnchor(FindAllTd(T1Rows(soup)[i])[2])}

\* the document with the header rows of its table emptied
BlankHeaders(soup) ==
    [soup EXCEPT !.tables[FirstT1(soup)].rows =
        [j \in 1..Len(@) |-> IF j <= HEADER_ROWS THEN Tr(<<>>) ELSE @[j]]]

RecordFields ==
    {"State", "StateID", "FY", "District", "Block", "Panchayat", "April",
     "May", "June", "July", "August", "September", "October", "November",
     "December", "January", "February", "March"}

\* the entry of the log for the list entry at a path
LogAt(path) == CHOOSE i \in DOMAIN log : log[i].path = path
WasFetched(path) == \E i \in DOMAIN log : log[i].path = path

\* the links of each page of the server, as extract_links gives them
LinksOf ==
    [u \in {URL_SA, URL_SB, URL_SC, URL_SD, URL_D1, URL_D2, URL_B1, URL_B2} |->
        extract_links(PageAt(u)).value]

\* the number of entries of the list a path's last position counts in
Siblings(path) ==
    IF Len(path) = 1 THEN Len(state_url_list)
    ELSE IF Len(path) = 2 THEN Len(district_link_list)
    ELSE Len(block_link_list)

LoopHead(level) ==
    IF level = 1 THEN "states" ELSE IF level = 2 THEN "districts" ELSE "blocks"

FetchFailedNow == Len(log') = Len(log) + 1 /\ ~log'[Len(log')].ok

(***************************************************************************)
(* C1.  A fetch failure skips exactly the subtree of the failed page.      *)
(***************************************************************************)
\* no page is fetched below a page whose fetch failed
C1_NoFetchBelowFailure ==
    \A i, j \in DOMAIN log :
        ~log[i].ok => ~ProperPrefix(log[i].path, log[j].path)

\* C1 as stated: a failed fetch skips its subtree and nothing else, the run
\* is not aborted by it, and the URL that failed is never fetched again
C1_FailedUrlNeverFetchedAgain ==
    /\ C1_NoFetchBelowFailure
    /\ (pc = "aborted" => log[Len(log)].ok)
    /\ \A i, j \in DOMAIN log :
           i < j /\ ~log[i].ok => log[j].url /= log[i].url

\* the step that meets a failed fetch goes on with the next sibling, keeps
\* the collected records and does not abort
C1_FailureStep ==
    FetchFailedNow =>
        LET p == log'[Len(log')].path IN
        /\ pc' /= "aborted"
        /\ all_data_list' = all_data_list
        /\ output' = output
        /\ (p[Len(p)] < Siblings(p) => pc' = LoopHead(Len(p)))
        /\ (Len(p) = 1 /\ p[1] = Len(state_url_list) => pc' = "write")

\* the fetch after a failed one is of the next sibling of the failed entry
\* or, when it was the last, of the next sibling of one of its ancestors
C1_NextFetch ==
    (Len(log') = Len(log) + 1 /\ log /= <<>> /\ ~log[Len(log)].ok) =>
        LET p == log[Len(log)].path
            q == log'[Len(log')].path
        IN  /\ \E k \in 1..Len(p) : q = SubSeq(p, 1, k - 1) \o <<p[k] + 1>>
            /\ (p[Len(p)] < Siblings(p) =>
                    q = SubSeq(p, 1, Len(p) - 1) \o <<p[Len(p)] + 1>>)

\* C1, amended: a failed fetch skips exactly the subtree of the failed list
\* entry, the loop goes on with the next sibling, the run is not aborted by
\* the failure, and no list entry is fetched twice (the same URL is fetched
\* again only where it occurs again as another list entry)
C1_SkipSubtreeOnly ==
    /\ [](C1_NoFetchBelowFailure
          /\ \A i, j \in DOMAIN log : i < j => log[i].path /= log[j].path)
    /\ [][C1_FailureStep /\ C1_NextFetch]_vars

\* a district fetch failed, its sibling was fetched, and so was a later state
C1_Witness ==
    \E i, j, k \in DOMAIN log :
        /\ i < j /\ j < k
        /\ ~log[i].ok /\ Len(log[i].path) = 2
        /\ log[j].ok /\ log[j].path = <<log[i].path[1], log[i].path[2] + 1>>
        /\ log[k].path = <<log[i].path[1] + 1>>

(***************************************************************************)
(* C2.  The delay after a request.                                         *)
(***************************************************************************)
\* C2 as stated: every get_soup call sleeps the fixed delay after its
\* request, whether the request succeeded or failed
C2_DelayAfterEveryFetch ==
    \A i \in DOMAIN log : log[i].slept = SLEEP_SECONDS

(***************************************************************************)
(* C3.  Records carry the context of the path that produced them.          *)
(***************************************************************************)
\* C3: every collected record has the State, State ID and FY parsed from the
\* state URL it was reached under, the name of the district link followed
\* from that state page and the name of the block link followed from that
\* district page, and those three pages were fetched on that path
C3_AncestorContext ==
    /\ Len(origin) = Len(all_data_list)
    /\ \A k \in DOMAIN all_data_list :
         LET o == origin[k]
             rec == all_data_list[k]
             surl == state_url_list[o[1]]
             d == LinksOf[surl][o[2]]
             b == LinksOf[d[2]][o[3]]
         IN  /\ rec.State = QueryGet(surl.query, "state_name")
             /\ rec.StateID = QueryGet(surl.query, "state_code")
             /\ rec.FY = QueryGet(surl.query, "fin_year")
             /\ rec.District = d[1]
             /\ rec.Block = b[1]
             /\ WasFetched(<<o[1]>>) /\ log[LogAt(<<o[1]>>)].url = surl
             /\ WasFetched(<<o[1], o[2]>>)
             /\ log[LogAt(<<o[1], o[2]>>)].url = d[2]
             /\ WasFetched(<<o[1], o[2], o[3]>>)
             /\ log[LogAt(<<o[1], o[2], o[3]>>)].url = b[2]

\* records of two states and of two districts of one state are collected
C3_Witness ==
    \E j, k, l \in DOMAIN all_data_list :
        /\ all_data_list[j].State /= all_data_list[k].State
        /\ all_data_list[l].State = all_data_list[k].State
        /\ all_data_list[l].District /= all_data_list[k].District
        /\ all_data_list[l].Block = all_data_list[k].Block

(***************************************************************************)
(* C4.  Insertion order.                                                   *)
(***************************************************************************)
\* the records are in the order state, district link, block link, table row,
\* each is the record of the table row it is attributed to, and the file
\* holds them in that order
C4_Ordered ==
    /\ Len(origin) = Len(all_data_list)
    /\ \A k \in 1..(Len(origin) - 1) : LexLess(origin[k], origin[k + 1])
    /\ \A k \in DOMAIN all_data_list :
         LET o == origin[k]
             page == PageAt(log[LogAt(<<o[1], o[2], o[3]>>)].url)
             cells == FindAllTd(T1Rows(page)[o[4]])
         IN  /\ o[4] > HEADER_ROWS
             /\ all_data_list[k].Panchayat = unidecode(Strip(CellText(cells[2])))
             /\ all_data_list[k].April = Strip(CellText(cells[3]))
    /\ (output /= NoneValue =>
          /\ Len(output.rows) = Len(all_data_list)
          /\ \A r \in DOMAIN output.rows :
               /\ output.rows[r][1] = all_data_list[r].State
               /\ output.rows[r][4] = all_data_list[r].District
               /\ output.rows[r][5] = all_data_list[r].Block
               /\ output.rows[r][6] = all_data_list[r].Panchayat
               /\ output.rows[r][7] = all_data_list[r].April)

\* C4: the collection is in insertion order (state, then district link, then
\* block link, then table row), it is only ever appended to, and the file
\* holds the records in that order
C4_InsertionOrder ==
    /\ []C4_Ordered
    /\ [][IsPrefix(all_data_list, all_data_list')]_vars

\* the first of two states gave records of several blocks, the second state
\* was fetched and gave none, and the file was written
C4_Witness ==
    /\ pc = "done"
    /\ output /= NoneValue
    /\ Len(state_url_list) = 2
    /\ log[Len(log)].path = <<2>>
    /\ \A k \in DOMAIN origin : origin[k][1] = 1
    /\ \E j, k \in DOMAIN origin : origin[j][2] /= origin[k][2]
    /\ \E j, k \in DOMAIN origin : j /= k /\ origin[j][3] = origin[k][3]
                                    /\ origin[j][2] = origin[k][2]

(***************************************************************************)
(* C5.  The output file.                                                   *)
(***************************************************************************)
\* C5: the file is written at most once, only when every state URL has been
\* processed, and then if and only if records were collected
C5_WrittenOnceAtEnd ==
    /\ writes <= 1
    /\ (writes = 1 <=> output /= NoneValue)
    /\ (pc /= "done" => writes = 0)
    /\ (pc = "done" =>
          /\ si = Len(state_url_list)
          /\ (writes = 1 <=> all_data_list /= <<>>)
          /\ (writes = 1 => output.header = COLUMNS
                            /\ Len(output.rows) = Len(all_data_list)))

\* a run over two states ended with several records written to the file
C5_Witness ==
    /\ pc = "done"
    /\ writes = 1
    /\ Len(state_url_list) = 2
    /\ Len(output.rows) >= 2

(***************************************************************************)
(* C6.  The run completes.                                                 *)
(***************************************************************************)
\* C6 as stated: whatever the pages hold, no condition aborts the run, the
\* crawl is never deeper than state, district, block, and while the run is
\* not complete it has a next step
C6_RunNeverAborts ==
    /\ pc /= "aborted"
    /\ \A i \in DOMAIN log : Len(log[i].path) <= 3
    /\ (pc \in {"states", "districts", "blocks", "write"} => ENABLED Next)

(***************************************************************************)
(* C7.  Month fields are positional.                                       *)
(***************************************************************************)
\* C7: the record of a row has the stripped text of cell 3 as April, of cell
\* 14 as March, and of cell i + 2 as the i-th month of MONTHS
C7_MonthsPositional ==
    (call.fn = "scrape_table_data" /\ HasT1(call.soup)) =>
        LET rows == T1Rows(call.soup)
            from == BodyRows(call.soup, MIN_DATA_CELLS)
            recs == call.result.value
        IN  /\ Len(recs) = Cardinality(from)
            /\ \A k \in DOMAIN recs :
                 LET cells == FindAllTd(rows[Nth(from, k)]) IN
                 /\ recs[k].April = Strip(CellText(cells[3]))
                 /\ recs[k].March = Strip(CellText(cells[14]))
                 /\ \A m \in 1..12 :
                      Field(recs[k], MONTHS[m]) = Strip(CellText(cells[m + 2]))

\* a record with April = "100" and March = "210"
C7_Witness ==
    /\ call.fn = "scrape_table_data"
    /\ \E k \in DOMAIN call.result.value :
         /\ call.result.value[k].April = <<"1", "0", "0">>
         /\ call.result.value[k].May = <<"1", "1", "0">>
         /\ call.result.value[k].March = <<"2", "1", "0">>

(***************************************************************************)
(* C8.  No document, or no table 't1'.                                     *)
(***************************************************************************)
\* C8: for None and for a document without a table 't1' both extractors
\* return the empty list without raising, and in main such a state page is
\* followed by no district fetch and gives no record
C8_NoTableNoOutput ==
    /\ (call.fn /= "none" /\ ~HasT1(call.soup) => call.result = Returned(<<>>))
    /\ \A i \in DOMAIN log :
         (Len(log[i].path) = 1 /\ log[i].ok /\ ~HasT1(PageAt(log[i].url))) =>
            /\ \A j \in DOMAIN log : ~ProperPrefix(log[i].path, log[j].path)
            /\ \A k \in DOMAIN origin : origin[k][1] /= log[i].path[1]

\* a state page with tables but none with id 't1' was fetched and handed to
\* extract_links, and the run went on to the next state
C8_Witness ==
    /\ call.fn = "extract_links"
    /\ call.soup = PAGE_SC
    /\ call.result = Returned(<<>>)
    /\ Len(log) = 1
    /\ pc = "states"

(***************************************************************************)
(* C9.  Header rows and short rows.                                        *)
(***************************************************************************)
\* C9: the first four rows never contribute (the result is that of the same
\* document with these rows emptied), a table of at most four rows gives the
\* empty list, extract_links gives at most one pair per later row with at
\* least 2 cells, and scrape_table_data gives exactly one complete record
\* per later row with at least 14 cells
C9_HeaderAndShortRows ==
    (call.fn /= "none" /\ HasT1(call.soup)) =>
        /\ (Len(T1Rows(call.soup)) <= HEADER_ROWS => call.result = Returned(<<>>))
        /\ (call.fn = "extract_links" =>
              /\ Len(call.result.value) <=
                     Cardinality(BodyRows(call.soup, MIN_LINK_CELLS))
              /\ call.result = extract_links(BlankHeaders(call.soup)))
        /\ (call.fn = "scrape_table_data" =>
              /\ Len(call.result.value) =
                     Cardinality(BodyRows(call.soup, MIN_DATA_CELLS))
              /\ \A k \in DOMAIN call.result.value :
                     DOMAIN call.result.value[k] = RecordFields
              /\ call.result =
                     scrape_table_data(BlankHeaders(call.soup), call.ctx[1],
                                       call.ctx[2], call.ctx[3], call.ctx[4],
                                       call.ctx[5]))

\* two records from a table that has a header row of 14 cells and, after the
\* header rows, a row of 13 cells between two rows of at least 14 cells
C9_Witness ==
    /\ call.fn = "scrape_table_data"
    /\ HasT1(call.soup)
    /\ Len(call.result.value) = 2
    /\ \E i \in 1..HEADER_ROWS : TdCount(T1Rows(call.soup)[i]) >= MIN_DATA_CELLS
    /\ \E i \in (HEADER_ROWS + 1)..Len(T1Rows(call.soup)) :
           TdCount(T1Rows(call.soup)[i]) = MIN_DATA_CELLS - 1

(***************************************************************************)
(* C10.  extract_links on a document with the table.                       *)
(***************************************************************************)
\* C10 as stated: extract_links returns without raising exactly one
\* (name, absolute URL) pair per row after the header rows that has at
\* least two cells and a hyperlink in the second, in row order; any other
\* row is skipped and never causes an error
C10_OnePairPerLinkRow ==
    (call.fn = "extract_links" /\ HasT1(call.soup)) =>
        /\ call.result.raised = "none"
        /\ \A i \in LinkRows(call.soup) :
               "href" \in DOMAIN FindAnchor(FindAllTd(T1Rows(call.soup)[i])[2]).node.attrs
        /\ Len(call.result.value) = Cardinality(LinkRows(call.soup))
        /\ \A k \in DOMAIN call.result.value :
             LET a == FindAnchor(FindAllTd(
                          T1Rows(call.soup)[Nth(LinkRows(call.soup), k)])[2]).node
             IN  /\ call.result.value[k][1] = unidecode(Strip(a.text))
                 /\ call.result.value[k][2] = urljoin(BASE_URL_PATH, a.attrs.href)
                 /\ IsAbsolute(call.result.value[k][2])

====
